---- MODULE Spec2Model ----
(***************************************************************************)
(* Model of internal/sync.go of ssosync: the synchronisation of a Google   *)
(* directory (source) into an AWS SSO SCIM store (target).                 *)
(*                                                                         *)
(* The source directory and the configuration are fixed during a run; the  *)
(* target store is changed by the calls of SyncGroupsUsers, or of          *)
(* SyncUsers and SyncGroups when DoSync runs the other sync method.  Every *)
(* call on a collaborator is one answer drawn from the answers that        *)
(* collaborator can give in the current store state (success,              *)
(* ErrUserNotFound, a 409 ErrHttpNotOK, or any other error).               *)
(***************************************************************************)
EXTENDS Integers, Sequences, FiniteSets, TLC

VARIABLES
    gDir,       \* the Google directory: [groups, members, users, deleted]
    cfg,        \* s.cfg: [IgnoreUsers, IgnoreGroups, IncludeGroups, SyncMethod]
    tgt,        \* the AWS store: [users, groups, members]
    tgt0,       \* the AWS store when the run started
    users,      \* s.users: the aws users SyncUsers found or created, by username
    pc,         \* position of the run
    i,          \* index of the running outer loop
    j,          \* index of the running inner loop
    err,        \* the error the run returns ("none": nil)
    errAt,      \* the position at which the run returned its error
    snap,       \* the locals holding the snapshots
    ops,        \* the locals holding the operation lists
    calls,      \* the calls issued on the AWS client, in order, with their answers
    others      \* number of changes another actor made to the AWS store

vars == <<gDir, cfg, tgt, tgt0, users, pc, i, j, err, errAt, snap, ops, calls, others>>

----------------------------------------------------------------------------
(* Bounds of the model *)

\* largest number of member addresses of a Google group
MaxMembers == 2
\* largest number of changes another actor makes to the AWS store during a run
MaxOthers == 1

----------------------------------------------------------------------------
(* Generic helpers *)

Range(s) == {s[k] : k \in 1..Len(s)}

Last(s) == s[Len(s)]

\* the elements of the set S, listed in the order of the sequence order
ListOf(S, order) == SelectSeq(order, LAMBDA x : x \in S)

\* Go's m[k] on a map of slices: the nil slice when k is no key
Get(m, k) == IF k \in DOMAIN m THEN m[k] ELSE <<>>

\* number of positions of s whose element satisfies P
Count(s, P(_)) == Cardinality({k \in 1..Len(s) : P(s[k])})

\* all orders in which the elements of the finite set S can be listed
Orders(S) == {p \in [1..Cardinality(S) -> S] : \A x \in S : \E k \in DOMAIN p : p[k] = x}

----------------------------------------------------------------------------
(* The universe the directories are drawn from *)

Emails == {"a", "b"}
EmailOrder == <<"a", "b">>

\* member addresses of the Google directory: a2 is a second address of
\* user a, grp is the address of a nested group, unk is no user's address
Addrs == {"a", "a2", "b", "grp", "unk"}
AddrOrder == <<"a", "a2", "b", "grp", "unk">>

GroupNames == {"g1", "g2"}
GroupOrder == <<"g1", "g2">>

\* admin.Group
GGroup(n) == [Name |-> n, Email |-> IF n = "g1" THEN "g1@" ELSE "g2@"]

\* admin.Member
GMember(addr) == [Email |-> addr, Type |-> IF addr = "grp" THEN "GROUP" ELSE "USER"]

\* admin.User
GUser(given, family, email, suspended) ==
    [PrimaryEmail |-> email, GivenName |-> given, FamilyName |-> family,
     Suspended |-> suspended]

\* the user a member address belongs to ("" when it belongs to none)
OwnerOf(addr) ==
    CASE addr \in {"a", "a2"} -> "a"
      [] addr = "b" -> "b"
      [] OTHER -> ""

----------------------------------------------------------------------------
(* aws.User, aws.Group and the constructors of package aws *)

NewUser(given, family, email, active) ==
    [Username |-> email, GivenName |-> given, FamilyName |-> family, Active |-> active]

\* a group not yet stored has no ID
NewGroup(name) == [DisplayName |-> name, ID |-> ""]

\* the record the store holds of the group name: the store gave it an ID
StoredGroup(name) == [DisplayName |-> name, ID |-> name]

----------------------------------------------------------------------------
(* Filter policy *)

ignoreUser(name) == name \in cfg.IgnoreUsers

ignoreGroup(name) == name \in cfg.IgnoreGroups

includeGroup(name) == name \in cfg.IncludeGroups

----------------------------------------------------------------------------
(* The Google client (package google) *)

\* the primary emails of the users Google reports as deleted
DeletedEmails == {gDir.deleted[k].PrimaryEmail : k \in 1..Len(gDir.deleted)}

\* google.GetUsers("email:" + addr): the users having the address addr
GetUsers(addr) ==
    IF OwnerOf(addr) \in DOMAIN gDir.users \ DeletedEmails
    THEN <<gDir.users[OwnerOf(addr)]>>
    ELSE <<>>

\* google.GetUsers(query): the users of the directory that are not deleted
GetAllUsers ==
    [k \in 1..Len(ListOf(DOMAIN gDir.users \ DeletedEmails, EmailOrder)) |->
        gDir.users[ListOf(DOMAIN gDir.users \ DeletedEmails, EmailOrder)[k]]]

\* google.GetDeletedUsers()
GetDeletedUsers == gDir.deleted

\* google.GetGroupMembers(g)
GetGroupMembers(g) == gDir.members[g.Name]

----------------------------------------------------------------------------
(* The AWS client (package aws): the answers a call can get, and its effect *)

Answers == {"ok", "TransportError"}

UserExists(t, email) == email \in DOMAIN t.users

FindUserByEmailAnswers(t, email) ==
    IF UserExists(t, email) THEN Answers ELSE {"NotFound", "TransportError"}

CreateUserAnswers(t, u) ==
    IF UserExists(t, u.Username) THEN {"Conflict", "TransportError"} ELSE Answers

FindGroupByDisplayNameAnswers(t, name) ==
    IF name \in t.groups THEN Answers ELSE {"NotFound", "TransportError"}

IsUserInGroup(t, user, group) == <<user.Username, group.DisplayName>> \in t.members

StoreCreateUser(t, u) == [t EXCEPT !.users = (u.Username :> u) @@ t.users]

StoreUpdateUser(t, u) ==
    [t EXCEPT !.users = [e \in DOMAIN t.users |-> IF e = u.Username THEN u ELSE t.users[e]]]

StoreDeleteUser(t, u) ==
    [t EXCEPT !.users = [e \in DOMAIN t.users \ {u.Username} |-> t.users[e]],
              !.members = {m \in t.members : m[1] # u.Username}]

StoreCreateGroup(t, g) == [t EXCEPT !.groups = t.groups \cup {g.DisplayName}]

StoreDeleteGroup(t, g) ==
    [t EXCEPT !.groups = t.groups \ {g.DisplayName},
              !.members = {m \in t.members : m[2] # g.DisplayName}]

StoreAddUserToGroup(t, u, g) ==
    [t EXCEPT !.members = t.members \cup {<<u.Username, g.DisplayName>>}]

StoreRemoveUserFromGroup(t, u, g) ==
    [t EXCEPT !.members = t.members \ {<<u.Username, g.DisplayName>>}]

\* the order in which the store lists its groups: SyncGroupsUsers names an
\* aws group by the name of the Google group, SyncGroups by its email
StoredGroupOrder == <<"g1", "g2", "g1@", "g2@">>

\* aws.GetUsers() and aws.GetGroups(): the listings of the store
ListUsers(t) == [k \in 1..Len(ListOf(DOMAIN t.users, EmailOrder)) |->
                    t.users[ListOf(DOMAIN t.users, EmailOrder)[k]]]

ListGroups(t) == [k \in 1..Len(ListOf(t.groups, StoredGroupOrder)) |->
                    StoredGroup(ListOf(t.groups, StoredGroupOrder)[k])]

----------------------------------------------------------------------------
(* Diff engine *)

\* the comparison without the family name
UserMismatchNoFamilyName(awsUser, gUser) ==
    \/ awsUser.Active = gUser.Suspended
    \/ awsUser.GivenName # gUser.GivenName

\* the comparison of getUserOperations that sends a user to update
UserMismatch(awsUser, gUser) ==
    \/ awsUser.Active = gUser.Suspended
    \/ awsUser.GivenName # gUser.GivenName
    \/ awsUser.FamilyName # gUser.FamilyName

\* awsMap of getUserOperations: a later user of the list replaces an earlier one
UserMap(awsUsers) ==
    [e \in {awsUsers[k].Username : k \in 1..Len(awsUsers)} |->
        awsUsers[CHOOSE k \in 1..Len(awsUsers) :
                    /\ awsUsers[k].Username = e
                    /\ \A l \in k+1..Len(awsUsers) : awsUsers[l].Username # e]]

FromGoogle(gUser) ==
    NewUser(gUser.GivenName, gUser.FamilyName, gUser.PrimaryEmail, ~gUser.Suspended)

getUserOperations(awsUsers, googleUsers) ==
    LET awsMap == UserMap(awsUsers)
        googleMap == {googleUsers[k].PrimaryEmail : k \in 1..Len(googleUsers)}
        found(g) == g.PrimaryEmail \in DOMAIN awsMap
        toAdd == SelectSeq(googleUsers, LAMBDA g : ~found(g))
        toUpdate == SelectSeq(googleUsers,
                        LAMBDA g : found(g) /\ UserMismatch(awsMap[g.PrimaryEmail], g))
        same == SelectSeq(googleUsers,
                        LAMBDA g : found(g) /\ ~UserMismatch(awsMap[g.PrimaryEmail], g))
        toDelete == SelectSeq(awsUsers, LAMBDA u : u.Username \notin googleMap)
    IN  [add    |-> [k \in 1..Len(toAdd) |-> FromGoogle(toAdd[k])],
         delete |-> [k \in 1..Len(toDelete) |->
                        NewUser(toDelete[k].GivenName, toDelete[k].FamilyName,
                                toDelete[k].Username, toDelete[k].Active)],
         update |-> [k \in 1..Len(toUpdate) |-> FromGoogle(toUpdate[k])],
         equals |-> [k \in 1..Len(same) |-> awsMap[same[k].PrimaryEmail]]]

\* awsMap of getGroupOperations
GroupMap(awsGroups) ==
    [n \in {awsGroups[k].DisplayName : k \in 1..Len(awsGroups)} |->
        awsGroups[CHOOSE k \in 1..Len(awsGroups) :
                    /\ awsGroups[k].DisplayName = n
                    /\ \A l \in k+1..Len(awsGroups) : awsGroups[l].DisplayName # n]]

\* the group diff whose equals list is built from the Google groups
getGroupOperationsFromGoogle(awsGroups, googleGroups) ==
    LET awsNames == {awsGroups[k].DisplayName : k \in 1..Len(awsGroups)}
        googleMap == {googleGroups[k].Name : k \in 1..Len(googleGroups)}
        toAdd == SelectSeq(googleGroups, LAMBDA g : g.Name \notin awsNames)
        same == SelectSeq(googleGroups, LAMBDA g : g.Name \in awsNames)
        toDelete == SelectSeq(awsGroups, LAMBDA g : g.DisplayName \notin googleMap)
    IN  [add    |-> [k \in 1..Len(toAdd) |-> NewGroup(toAdd[k].Name)],
         delete |-> [k \in 1..Len(toDelete) |-> NewGroup(toDelete[k].DisplayName)],
         equals |-> [k \in 1..Len(same) |-> NewGroup(same[k].Name)]]

getGroupOperations(awsGroups, googleGroups) ==
    LET awsNames == {awsGroups[k].DisplayName : k \in 1..Len(awsGroups)}
        googleMap == {googleGroups[k].Name : k \in 1..Len(googleGroups)}
        toAdd == SelectSeq(googleGroups, LAMBDA g : g.Name \notin awsNames)
        same == SelectSeq(googleGroups, LAMBDA g : g.Name \in awsNames)
        toDelete == SelectSeq(awsGroups, LAMBDA g : g.DisplayName \notin googleMap)
    IN  [add    |-> [k \in 1..Len(toAdd) |-> NewGroup(toAdd[k].Name)],
         delete |-> [k \in 1..Len(toDelete) |-> NewGroup(toDelete[k].DisplayName)],
         equals |-> [k \in 1..Len(same) |-> GroupMap(awsGroups)[same[k].Name]]]

\* the membership diff that looks a user up among the members of all groups
getGroupUsersOperationsAnyGroup(gGroupsUsers, awsGroupsUsers) ==
    LET all == UNION {{gGroupsUsers[m][k].PrimaryEmail : k \in 1..Len(gGroupsUsers[m])} :
                        m \in DOMAIN gGroupsUsers}
        del(n) == SelectSeq(awsGroupsUsers[n], LAMBDA u : u.Username \notin all)
        eq(n)  == SelectSeq(awsGroupsUsers[n], LAMBDA u : u.Username \in all)
    IN  [delete |-> [n \in {m \in DOMAIN awsGroupsUsers : del(m) # <<>>} |-> del(n)],
         equals |-> [n \in {m \in DOMAIN awsGroupsUsers : eq(m) # <<>>} |-> eq(n)]]

\* the membership diff with the two branches of "found" exchanged
getGroupUsersOperationsExchanged(gGroupsUsers, awsGroupsUsers) ==
    LET mbG(n) == {Get(gGroupsUsers, n)[k].PrimaryEmail : k \in 1..Len(Get(gGroupsUsers, n))}
        del(n) == SelectSeq(awsGroupsUsers[n], LAMBDA u : u.Username \in mbG(n))
        eq(n)  == SelectSeq(awsGroupsUsers[n], LAMBDA u : u.Username \notin mbG(n))
    IN  [delete |-> [n \in {m \in DOMAIN awsGroupsUsers : del(m) # <<>>} |-> del(n)],
         equals |-> [n \in {m \in DOMAIN awsGroupsUsers : eq(m) # <<>>} |-> eq(n)]]

getGroupUsersOperations(gGroupsUsers, awsGroupsUsers) ==
    LET mbG(n) == {Get(gGroupsUsers, n)[k].PrimaryEmail : k \in 1..Len(Get(gGroupsUsers, n))}
        del(n) == SelectSeq(awsGroupsUsers[n], LAMBDA u : u.Username \notin mbG(n))
        eq(n)  == SelectSeq(awsGroupsUsers[n], LAMBDA u : u.Username \in mbG(n))
    IN  [delete |-> [n \in {m \in DOMAIN awsGroupsUsers : del(m) # <<>>} |-> del(n)],
         equals |-> [n \in {m \in DOMAIN awsGroupsUsers : eq(m) # <<>>} |-> eq(n)]]

----------------------------------------------------------------------------
(* Initial states: a Google directory, a configuration and an AWS store *)

\* the member lists of at most MaxMembers addresses drawn from A
MemberLists(A) ==
    {[k \in 1..Len(ListOf(S, AddrOrder)) |-> GMember(ListOf(S, AddrOrder)[k])] :
        S \in {T \in SUBSET A : Cardinality(T) <= MaxMembers}}

GoogleDirs ==
    {[groups  |-> [k \in 1..Len(ListOf(G, GroupOrder)) |-> GGroup(ListOf(G, GroupOrder)[k])],
      members |-> [n \in GroupNames |-> IF n = "g1" THEN m1 ELSE <<GMember("b")>>],
      users   |-> [e \in Emails |-> IF e = "a" THEN GUser("Ann", "Lee", "a", TRUE)
                                              ELSE GUser("Bob", "Ray", "b", FALSE)],
      deleted |-> <<>>] :
        G \in {{"g1"}, {"g1", "g2"}}, m1 \in MemberLists(Addrs)}

\* config.DefaultSyncMethod, and the other sync method
DefaultSyncMethod == "groups"
UsersGroupsSyncMethod == "users_groups"

Configs ==
    {[IgnoreUsers |-> {}, IgnoreGroups |-> {}, IncludeGroups |-> {},
      SyncMethod |-> DefaultSyncMethod],
     [IgnoreUsers |-> {"b"}, IgnoreGroups |-> {"g2@"}, IncludeGroups |-> {},
      SyncMethod |-> DefaultSyncMethod]}

\* the records user e can have in the AWS store
StoredUsers(e) ==
    IF e = "a"
    THEN {NewUser("Ann", "Lee", "a", FALSE), NewUser("Ann", "Lee", "a", TRUE),
          NewUser("Anna", "Lee", "a", FALSE), NewUser("Ann", "Li", "a", FALSE)}
    ELSE {NewUser("Bob", "Ray", "b", TRUE)}

Stores ==
    UNION {UNION {{[users |-> u, groups |-> G, members |-> M] :
                        M \in SUBSET {<<e, "g1">> : e \in IF "g1" \in G THEN E ELSE {}}} :
                    u \in {f \in [E -> UNION {StoredUsers(e) : e \in E}] :
                                \A e \in E : f[e] \in StoredUsers(e)},
                    G \in SUBSET GroupNames} :
            E \in SUBSET Emails}

NoSnap ==
    [googleGroups |-> <<>>, googleUsers |-> <<>>, googleGroupsUsers |-> <<>>,
     gUniqUsers |-> <<>>, awsGroups |-> <<>>, awsUsers |-> <<>>, awsGroupsUsers |-> <<>>,
     deletedUsers |-> <<>>, group |-> NewGroup(""), memberList |-> {}, userOrder |-> <<>>]

NoOps ==
    [addAWSUsers |-> <<>>, delAWSUsers |-> <<>>, updateAWSUsers |-> <<>>,
     addAWSGroups |-> <<>>, delAWSGroups |-> <<>>, equalAWSGroups |-> <<>>,
     deleteUsersFromGroup |-> <<>>]

\* the state in which a run starts at the position entry
Start(dirs, configs, stores, entry) ==
    /\ gDir \in dirs
    /\ cfg \in configs
    /\ tgt \in stores
    /\ tgt0 = tgt
    /\ users = <<>>
    /\ pc = entry
    /\ i = 1
    /\ j = 1
    /\ err = "none"
    /\ errAt = ""
    /\ snap = NoSnap
    /\ ops = NoOps
    /\ calls = <<>>
    /\ others = 0

\* a call of SyncGroupsUsers
Init == Start(GoogleDirs, Configs, Stores, "GetGoogleGroups")

----------------------------------------------------------------------------
(* SyncGroupsUsers: bookkeeping shared by its steps *)

NoUser == NewUser("", "", "", FALSE)

\* one call on a client (those on the Google client are named google.*),
\* its answer, and the position of the run that issued it
Call(op, user, group, res) ==
    [op |-> op, user |-> user, group |-> group, res |-> res, at |-> pc]

\* the error of a call that builds the snapshots is dropped
FetchFatalNever(r) == FALSE

\* "if err != nil { return err }" after a call that builds the snapshots
FetchFatal(r) == r # "ok"

\* no error of a call of the six phases ends the run
ApplyFatalNever(r) == FALSE

\* only ErrUserNotFound ends a phase
ApplyFatalNotFoundOnly(r) == r = "NotFound"

\* "if err != nil { return err }" after a call of the six phases
ApplyFatal(r) == r # "ok"

\* the error handling of CreateUser without the test of the 409
CreateUserFatalAlways(r) == r # "ok"

\* the error handling of CreateUser in phase 3: a 409 is logged and skipped
CreateUserFatal(r) == r # "ok" /\ r # "Conflict"

\* the run returns the error e after issuing the calls cs
Return(cs, e) ==
    /\ calls' = calls \o cs
    /\ err' = e
    /\ errAt' = pc
    /\ pc' = "done"
    /\ UNCHANGED <<tgt, i, j, snap, ops>>

\* the run goes on at position <<p, ni, nj>> after issuing the calls cs,
\* which left the store as t
Proceed(cs, t, p, ni, nj) ==
    /\ calls' = calls \o cs
    /\ tgt' = t
    /\ pc' = p
    /\ i' = ni
    /\ j' = nj
    /\ UNCHANGED <<err, errAt>>

\* the user phases without the creates
PhaseAfterWithoutCreates(p) ==
    CASE p = "delUsers" -> "updUsers"
      [] p = "updUsers" -> "addGroups"
      [] p = "addUsers" -> "addGroups"

\* the user phases with the creates ahead of the updates
PhaseAfterCreatesFirst(p) ==
    CASE p = "delUsers" -> "addUsers"
      [] p = "addUsers" -> "updUsers"
      [] p = "updUsers" -> "addGroups"

\* the phase that follows each of the three user phases
PhaseAfter(p) ==
    CASE p = "delUsers" -> "updUsers"
      [] p = "updUsers" -> "addUsers"
      [] p = "addUsers" -> "addGroups"

\* the list a user phase ranges over
PhaseList(p) ==
    CASE p = "delUsers" -> ops.delAWSUsers
      [] p = "updUsers" -> ops.updateAWSUsers
      [] p = "addUsers" -> ops.addAWSUsers

----------------------------------------------------------------------------
(* SyncGroupsUsers: building the snapshots *)

\* s.google.GetGroups(query) and the ignore filter
GetGoogleGroups ==
    /\ pc = "GetGoogleGroups"
    /\ \E r \in Answers :
        LET c == <<Call("google.GetGroups", NoUser, "", r)>> IN
        IF FetchFatal(r)
        THEN Return(c, r)
        ELSE /\ snap' = [snap EXCEPT !.googleGroups =
                            SelectSeq(IF r = "ok" THEN gDir.groups ELSE <<>>,
                                      LAMBDA g : ~ignoreGroup(g.Email))]
             /\ Proceed(c, tgt, "GoogleMembers", 1, 1)
             /\ UNCHANGED ops
    /\ UNCHANGED <<gDir, cfg, tgt0, users, others>>

\* the members of g that getGoogleGroupsAndUsers resolves to users
ResolvedMembers(members) ==
    SelectSeq(members, LAMBDA m : /\ ~ignoreUser(m.Email)
                                  /\ m.Type # "GROUP"
                                  /\ Len(GetUsers(m.Email)) # 0)

\* getGoogleGroupsAndUsers: one iteration of the loop over googleGroups; the
\* answer r is that of GetGroupMembers and of the GetUsers calls on its members
GoogleGroupMembers ==
    /\ pc = "GoogleMembers"
    /\ i <= Len(snap.googleGroups)
    /\ LET g == snap.googleGroups[i] IN
       IF ignoreGroup(g.Email)
       THEN Proceed(<<>>, tgt, pc, i + 1, 1) /\ UNCHANGED <<snap, ops>>
       ELSE \E r \in Answers :
            LET c == <<Call("google.GetGroupMembers", NoUser, g.Name, r)>> IN
            IF FetchFatal(r)
            THEN Return(c, r)
            ELSE LET kept == ResolvedMembers(IF r = "ok" THEN GetGroupMembers(g) ELSE <<>>)
                     membersUsers == [k \in 1..Len(kept) |-> GetUsers(kept[k].Email)[1]]
                     old == snap.gUniqUsers
                     keys == DOMAIN old \cup {kept[k].Email : k \in 1..Len(kept)}
                 IN  /\ snap' = [snap EXCEPT
                            !.googleGroupsUsers = (g.Name :> membersUsers) @@ @,
                            !.gUniqUsers = [a \in keys |-> IF a \in DOMAIN old
                                                           THEN old[a]
                                                           ELSE GetUsers(a)[1]]]
                     /\ Proceed(c, tgt, pc, i + 1, 1)
                     /\ UNCHANGED ops
    /\ UNCHANGED <<gDir, cfg, tgt0, users, others>>

\* getGoogleGroupsAndUsers: the list of the users of gUniqUsers, in the
\* order in which the map happens to be ranged over
CollectGoogleUsers ==
    /\ pc = "GoogleMembers"
    /\ i > Len(snap.googleGroups)
    /\ \E p \in Orders(DOMAIN snap.gUniqUsers) :
        snap' = [snap EXCEPT !.googleUsers =
                    [k \in 1..Len(p) |-> snap.gUniqUsers[p[k]]]]
    /\ Proceed(<<>>, tgt, "GetAWSGroups", 1, 1)
    /\ UNCHANGED <<gDir, cfg, tgt0, users, ops, others>>

\* s.aws.GetGroups()
GetAWSGroups ==
    /\ pc = "GetAWSGroups"
    /\ \E r \in Answers :
        LET c == <<Call("GetGroups", NoUser, "", r)>> IN
        IF FetchFatal(r)
        THEN Return(c, r)
        ELSE /\ snap' = [snap EXCEPT !.awsGroups =
                            IF r = "ok" THEN ListGroups(tgt) ELSE <<>>]
             /\ Proceed(c, tgt, "GetAWSUsers", 1, 1)
             /\ UNCHANGED ops
    /\ UNCHANGED <<gDir, cfg, tgt0, users, others>>

\* s.aws.GetUsers()
GetAWSUsers ==
    /\ pc = "GetAWSUsers"
    /\ \E r \in Answers :
        LET c == <<Call("GetUsers", NoUser, "", r)>> IN
        IF FetchFatal(r)
        THEN Return(c, r)
        ELSE /\ snap' = [snap EXCEPT !.awsUsers =
                            IF r = "ok" THEN ListUsers(tgt) ELSE <<>>]
             /\ Proceed(c, tgt, "AWSMembers", 1, 1)
             /\ UNCHANGED ops
    /\ UNCHANGED <<gDir, cfg, tgt0, users, others>>

\* getAWSGroupsAndUsers: one iteration of the loop over awsGroups, which
\* probes every user of awsUsers; the probe number f fails (none when f = 0)
AWSGroupMembers ==
    /\ pc = "AWSMembers"
    /\ i <= Len(snap.awsGroups)
    /\ LET awsGroup == snap.awsGroups[i]
           probes(n, f) == [k \in 1..n |->
                              Call("IsUserInGroup", snap.awsUsers[k], awsGroup.DisplayName,
                                   IF k = f THEN "TransportError" ELSE "ok")]
           found(u) == IsUserInGroup(tgt, u, awsGroup)
       IN  \E f \in 0..Len(snap.awsUsers) :
            IF f > 0 /\ FetchFatal("TransportError")
            THEN Return(probes(f, f), "TransportError")
            ELSE /\ snap' = [snap EXCEPT !.awsGroupsUsers =
                                (awsGroup.DisplayName :>
                                    SelectSeq(snap.awsUsers,
                                        LAMBDA u : found(u) /\ (f = 0 \/ u # snap.awsUsers[f])))
                                @@ @]
                 /\ Proceed(probes(Len(snap.awsUsers), f), tgt, pc, i + 1, 1)
                 /\ UNCHANGED ops
    /\ UNCHANGED <<gDir, cfg, tgt0, users, others>>

\* "create list of changes by operations"
ComputeOperations ==
    /\ pc = "AWSMembers"
    /\ i > Len(snap.awsGroups)
    /\ LET u == getUserOperations(snap.awsUsers, snap.googleUsers)
           g == getGroupOperations(snap.awsGroups, snap.googleGroups)
       IN  ops' = [ops EXCEPT !.addAWSUsers = u.add, !.delAWSUsers = u.delete,
                              !.updateAWSUsers = u.update, !.addAWSGroups = g.add,
                              !.delAWSGroups = g.delete, !.equalAWSGroups = g.equals]
    /\ Proceed(<<>>, tgt, "delUsers", 1, 1)
    /\ UNCHANGED <<gDir, cfg, tgt0, users, snap, others>>

----------------------------------------------------------------------------
(* SyncGroupsUsers: the six phases *)

\* the user FindUserByEmail hands back (the argument stands in when it
\* hands back none)
Found(email, r, dflt) == IF r = "ok" THEN tgt.users[email] ELSE dflt

\* phase 1, one iteration: delete an aws user deleted in google
DeleteUserStep ==
    /\ pc = "delUsers"
    /\ i <= Len(ops.delAWSUsers)
    /\ LET awsUser == ops.delAWSUsers[i] IN
       \E r1 \in FindUserByEmailAnswers(tgt, awsUser.Username), r2 \in Answers :
        LET awsUserFull == Found(awsUser.Username, r1, awsUser)
            c1 == <<Call("FindUserByEmail", awsUser, "", r1)>>
            c2 == <<Call("DeleteUser", awsUserFull, "", r2)>>
        IN  IF ApplyFatal(r1) THEN Return(c1, r1)
            ELSE IF ApplyFatal(r2) THEN Return(c1 \o c2, r2)
            ELSE Proceed(c1 \o c2,
                         IF r2 = "ok" THEN StoreDeleteUser(tgt, awsUserFull) ELSE tgt,
                         pc, i + 1, 1)
                 /\ UNCHANGED <<snap, ops>>
    /\ UNCHANGED <<gDir, cfg, tgt0, users, others>>

\* phase 2, one iteration: update an aws user updated in google
UpdateUserStep ==
    /\ pc = "updUsers"
    /\ i <= Len(ops.updateAWSUsers)
    /\ LET awsUser == ops.updateAWSUsers[i] IN
       \E r1 \in FindUserByEmailAnswers(tgt, awsUser.Username), r2 \in Answers :
        LET awsUserFull == Found(awsUser.Username, r1, awsUser)
            c1 == <<Call("FindUserByEmail", awsUser, "", r1)>>
            c2 == <<Call("UpdateUser", awsUserFull, "", r2)>>
        IN  IF ApplyFatal(r1) THEN Return(c1, r1)
            ELSE IF ApplyFatal(r2) THEN Return(c1 \o c2, r2)
            ELSE Proceed(c1 \o c2,
                         IF r2 = "ok" THEN StoreUpdateUser(tgt, awsUserFull) ELSE tgt,
                         pc, i + 1, 1)
                 /\ UNCHANGED <<snap, ops>>
    /\ UNCHANGED <<gDir, cfg, tgt0, users, others>>

\* phase 3, one iteration: create an aws user added in google
CreateUserStep ==
    /\ pc = "addUsers"
    /\ i <= Len(ops.addAWSUsers)
    /\ LET awsUser == ops.addAWSUsers[i] IN
       \E r \in CreateUserAnswers(tgt, awsUser) :
        LET c == <<Call("CreateUser", awsUser, "", r)>> IN
        IF CreateUserFatal(r) THEN Return(c, r)
        ELSE Proceed(c, IF r = "ok" THEN StoreCreateUser(tgt, awsUser) ELSE tgt,
                     pc, i + 1, 1)
             /\ UNCHANGED <<snap, ops>>
    /\ UNCHANGED <<gDir, cfg, tgt0, users, others>>

\* the end of the loop of a user phase
NextUserPhase ==
    /\ pc \in {"delUsers", "updUsers", "addUsers"}
    /\ i > Len(PhaseList(pc))
    /\ Proceed(<<>>, tgt, PhaseAfter(pc), 1, 1)
    /\ UNCHANGED <<gDir, cfg, tgt0, users, snap, ops, others>>

\* phase 4, one iteration of the outer loop: create an aws group added in google
CreateGroupStep ==
    /\ pc = "addGroups"
    /\ i <= Len(ops.addAWSGroups)
    /\ LET awsGroup == ops.addAWSGroups[i] IN
       \E r \in Answers :
        LET c == <<Call("CreateGroup", NoUser, awsGroup.DisplayName, r)>> IN
        IF ApplyFatal(r) THEN Return(c, r)
        ELSE Proceed(c, IF r = "ok" THEN StoreCreateGroup(tgt, awsGroup) ELSE tgt,
                     "addGroupMembers", i, 1)
             /\ UNCHANGED <<snap, ops>>
    /\ UNCHANGED <<gDir, cfg, tgt0, users, others>>

\* phase 4, one iteration of the inner loop: add a member of the new group
AddGroupMemberStep ==
    /\ pc = "addGroupMembers"
    /\ j <= Len(Get(snap.googleGroupsUsers, ops.addAWSGroups[i].DisplayName))
    /\ LET awsGroup == ops.addAWSGroups[i]
           googleUser == Get(snap.googleGroupsUsers, awsGroup.DisplayName)[j]
       IN
       \E r1 \in FindUserByEmailAnswers(tgt, googleUser.PrimaryEmail), r2 \in Answers :
        LET awsUserFull == Found(googleUser.PrimaryEmail, r1, FromGoogle(googleUser))
            c1 == <<Call("FindUserByEmail", FromGoogle(googleUser), "", r1)>>
            c2 == <<Call("AddUserToGroup", awsUserFull, awsGroup.DisplayName, r2)>>
        IN  IF ApplyFatal(r1) THEN Return(c1, r1)
            ELSE IF ApplyFatal(r2) THEN Return(c1 \o c2, r2)
            ELSE Proceed(c1 \o c2,
                         IF r2 = "ok" THEN StoreAddUserToGroup(tgt, awsUserFull, awsGroup)
                                      ELSE tgt,
                         pc, i, j + 1)
                 /\ UNCHANGED <<snap, ops>>
    /\ UNCHANGED <<gDir, cfg, tgt0, users, others>>

\* phase 4: the end of the inner loop
AddGroupMembersDone ==
    /\ pc = "addGroupMembers"
    /\ j > Len(Get(snap.googleGroupsUsers, ops.addAWSGroups[i].DisplayName))
    /\ Proceed(<<>>, tgt, "addGroups", i + 1, 1)
    /\ UNCHANGED <<gDir, cfg, tgt0, users, snap, ops, others>>

\* the end of phase 4 and "list of users to to be removed in aws groups"
GroupUsersOperations ==
    /\ pc = "addGroups"
    /\ i > Len(ops.addAWSGroups)
    /\ ops' = [ops EXCEPT !.deleteUsersFromGroup =
                getGroupUsersOperations(snap.googleGroupsUsers, snap.awsGroupsUsers).delete]
    /\ Proceed(<<>>, tgt, "equalAdd", 1, 1)
    /\ UNCHANGED <<gDir, cfg, tgt0, users, snap, others>>

\* phase 5, first inner loop: add a google member missing in the aws group
EqualGroupAddStep ==
    /\ pc = "equalAdd"
    /\ i <= Len(ops.equalAWSGroups)
    /\ j <= Len(Get(snap.googleGroupsUsers, ops.equalAWSGroups[i].DisplayName))
    /\ LET awsGroup == ops.equalAWSGroups[i]
           googleUser == Get(snap.googleGroupsUsers, awsGroup.DisplayName)[j]
       IN
       \E r1 \in FindUserByEmailAnswers(tgt, googleUser.PrimaryEmail),
          r2 \in Answers, r3 \in Answers :
        LET awsUserFull == Found(googleUser.PrimaryEmail, r1, FromGoogle(googleUser))
            b == r2 = "ok" /\ IsUserInGroup(tgt, awsUserFull, awsGroup)
            c1 == <<Call("FindUserByEmail", FromGoogle(googleUser), "", r1)>>
            c2 == <<Call("IsUserInGroup", awsUserFull, awsGroup.DisplayName, r2)>>
            c3 == <<Call("AddUserToGroup", awsUserFull, awsGroup.DisplayName, r3)>>
        IN  IF ApplyFatal(r1) THEN Return(c1, r1)
            ELSE IF ApplyFatal(r2) THEN Return(c1 \o c2, r2)
            ELSE IF b THEN Proceed(c1 \o c2, tgt, pc, i, j + 1) /\ UNCHANGED <<snap, ops>>
            ELSE IF ApplyFatal(r3) THEN Return(c1 \o c2 \o c3, r3)
            ELSE Proceed(c1 \o c2 \o c3,
                         IF r3 = "ok" THEN StoreAddUserToGroup(tgt, awsUserFull, awsGroup)
                                      ELSE tgt,
                         pc, i, j + 1)
                 /\ UNCHANGED <<snap, ops>>
    /\ UNCHANGED <<gDir, cfg, tgt0, users, others>>

\* phase 5: the end of the first inner loop
EqualGroupAddDone ==
    /\ pc = "equalAdd"
    /\ i <= Len(ops.equalAWSGroups)
    /\ j > Len(Get(snap.googleGroupsUsers, ops.equalAWSGroups[i].DisplayName))
    /\ Proceed(<<>>, tgt, "equalRemove", i, 1)
    /\ UNCHANGED <<gDir, cfg, tgt0, users, snap, ops, others>>

\* phase 5, second inner loop: remove an aws member that is no google member
EqualGroupRemoveStep ==
    /\ pc = "equalRemove"
    /\ j <= Len(Get(ops.deleteUsersFromGroup, ops.equalAWSGroups[i].DisplayName))
    /\ LET awsGroup == ops.equalAWSGroups[i]
           awsUser == Get(ops.deleteUsersFromGroup, awsGroup.DisplayName)[j]
       IN
       \E r \in Answers :
        LET c == <<Call("RemoveUserFromGroup", awsUser, awsGroup.DisplayName, r)>> IN
        IF ApplyFatal(r) THEN Return(c, r)
        ELSE Proceed(c, IF r = "ok" THEN StoreRemoveUserFromGroup(tgt, awsUser, awsGroup)
                                    ELSE tgt,
                     pc, i, j + 1)
             /\ UNCHANGED <<snap, ops>>
    /\ UNCHANGED <<gDir, cfg, tgt0, users, others>>

\* phase 5: the end of the second inner loop
EqualGroupRemoveDone ==
    /\ pc = "equalRemove"
    /\ j > Len(Get(ops.deleteUsersFromGroup, ops.equalAWSGroups[i].DisplayName))
    /\ Proceed(<<>>, tgt, "equalAdd", i + 1, 1)
    /\ UNCHANGED <<gDir, cfg, tgt0, users, snap, ops, others>>

\* the end of phase 5
EqualGroupsDone ==
    /\ pc = "equalAdd"
    /\ i > Len(ops.equalAWSGroups)
    /\ Proceed(<<>>, tgt, "delGroups", 1, 1)
    /\ UNCHANGED <<gDir, cfg, tgt0, users, snap, ops, others>>

\* phase 6, one iteration: delete an aws group deleted in google
DeleteGroupStep ==
    /\ pc = "delGroups"
    /\ i <= Len(ops.delAWSGroups)
    /\ LET awsGroup == ops.delAWSGroups[i] IN
       \E r1 \in FindGroupByDisplayNameAnswers(tgt, awsGroup.DisplayName), r2 \in Answers :
        LET c1 == <<Call("FindGroupByDisplayName", NoUser, awsGroup.DisplayName, r1)>>
            c2 == <<Call("DeleteGroup", NoUser, awsGroup.DisplayName, r2)>>
        IN  IF ApplyFatal(r1) THEN Return(c1, r1)
            ELSE IF ApplyFatal(r2) THEN Return(c1 \o c2, r2)
            ELSE Proceed(c1 \o c2,
                         IF r2 = "ok" THEN StoreDeleteGroup(tgt, awsGroup) ELSE tgt,
                         pc, i + 1, 1)
                 /\ UNCHANGED <<snap, ops>>
    /\ UNCHANGED <<gDir, cfg, tgt0, users, others>>

\* "sync completed": SyncGroupsUsers returns nil
SyncCompleted ==
    /\ pc = "delGroups"
    /\ i > Len(ops.delAWSGroups)
    /\ Proceed(<<>>, tgt, "done", i, j)
    /\ UNCHANGED <<gDir, cfg, tgt0, users, snap, ops, others>>

----------------------------------------------------------------------------
(* Specifications *)

Next ==
    \/ GetGoogleGroups
    \/ GoogleGroupMembers
    \/ CollectGoogleUsers
    \/ GetAWSGroups
    \/ GetAWSUsers
    \/ AWSGroupMembers
    \/ ComputeOperations
    \/ DeleteUserStep
    \/ UpdateUserStep
    \/ CreateUserStep
    \/ NextUserPhase
    \/ CreateGroupStep
    \/ AddGroupMemberStep
    \/ AddGroupMembersDone
    \/ GroupUsersOperations
    \/ EqualGroupAddStep
    \/ EqualGroupAddDone
    \/ EqualGroupRemoveStep
    \/ EqualGroupRemoveDone
    \/ EqualGroupsDone
    \/ DeleteGroupStep
    \/ SyncCompleted

\* a run of SyncGroupsUsers during which no other actor changes the store
Spec == Init /\ [][Next]_vars

----------------------------------------------------------------------------
(* Another actor on the AWS store.  A change made before aws.GetUsers()   *)
(* answered is a run from another initial store, so the other actor acts   *)
(* from then on: the snapshot the run works from is stale.                 *)

SnapshotTaken ==
    pc \notin {"GetGoogleGroups", "GoogleMembers", "GetAWSGroups", "GetAWSUsers", "done"}

OtherActorDeletesUser ==
    /\ SnapshotTaken
    /\ others < MaxOthers
    /\ \E e \in DOMAIN tgt.users : tgt' = StoreDeleteUser(tgt, tgt.users[e])
    /\ others' = others + 1
    /\ UNCHANGED <<gDir, cfg, tgt0, users, pc, i, j, err, errAt, snap, ops, calls>>

OtherActorCreatesUser ==
    /\ SnapshotTaken
    /\ others < MaxOthers
    /\ \E e \in Emails \ DOMAIN tgt.users :
        \E u \in StoredUsers(e) : tgt' = StoreCreateUser(tgt, u)
    /\ others' = others + 1
    /\ UNCHANGED <<gDir, cfg, tgt0, users, pc, i, j, err, errAt, snap, ops, calls>>

NextOthers ==
    \/ Next
    \/ OtherActorDeletesUser
    \/ OtherActorCreatesUser

\* the runs with another actor start with nothing ignored and with the
\* names of the stored users as they are in the directory
InitOthers ==
    /\ Init
    /\ cfg.IgnoreUsers = {}
    /\ cfg.IgnoreGroups = {}
    /\ \A e \in DOMAIN tgt.users :
        /\ tgt.users[e].GivenName = gDir.users[e].GivenName
        /\ tgt.users[e].FamilyName = gDir.users[e].FamilyName

\* a run of SyncGroupsUsers during which another actor changes the store
SpecOthers == InitOthers /\ [][NextOthers]_vars

----------------------------------------------------------------------------
(* SyncUsers *)

\* the run returns the error e after issuing the calls cs, which left the
\* store as t
ReturnWith(cs, t, e) ==
    /\ calls' = calls \o cs
    /\ tgt' = t
    /\ err' = e
    /\ errAt' = pc
    /\ pc' = "done"
    /\ UNCHANGED <<i, j, snap, ops>>

\* ErrUserNotFound ends SyncUsers like any other error
DeletedFindFatalAlways(r) == r # "ok"

\* "if err != aws.ErrUserNotFound && err != nil { return err }"
DeletedFindFatal(r) == r # "NotFound" /\ r # "ok"

\* "if err != nil { return err }" after CreateUser in SyncUsers
SyncUsersCreateFatal(r) == r # "ok"

\* s.google.GetDeletedUsers()
GetDeletedUsersStep ==
    /\ pc = "GetDeletedUsers"
    /\ \E r \in Answers :
        LET c == <<Call("google.GetDeletedUsers", NoUser, "", r)>> IN
        IF FetchFatal(r)
        THEN Return(c, r)
        ELSE /\ snap' = [snap EXCEPT !.deletedUsers =
                            IF r = "ok" THEN GetDeletedUsers ELSE <<>>]
             /\ Proceed(c, tgt, "deletedUsers", 1, 1)
             /\ UNCHANGED ops
    /\ UNCHANGED <<gDir, cfg, tgt0, users, others>>

\* one iteration of the loop over deletedUsers
DeletedUserStep ==
    /\ pc = "deletedUsers"
    /\ i <= Len(snap.deletedUsers)
    /\ LET u == snap.deletedUsers[i] IN
       \E r1 \in FindUserByEmailAnswers(tgt, u.PrimaryEmail), r2 \in Answers :
        LET uu == Found(u.PrimaryEmail, r1, FromGoogle(u))
            c1 == <<Call("FindUserByEmail", FromGoogle(u), "", r1)>>
            c2 == <<Call("DeleteUser", uu, "", r2)>>
        IN  IF DeletedFindFatal(r1) THEN Return(c1, r1)
            ELSE IF r1 = "NotFound"
            THEN Proceed(c1, tgt, pc, i + 1, 1) /\ UNCHANGED <<snap, ops>>
            ELSE IF ApplyFatal(r2) THEN Return(c1 \o c2, r2)
            ELSE Proceed(c1 \o c2, IF r2 = "ok" THEN StoreDeleteUser(tgt, uu) ELSE tgt,
                         pc, i + 1, 1)
                 /\ UNCHANGED <<snap, ops>>
    /\ UNCHANGED <<gDir, cfg, tgt0, users, others>>

\* the end of the loop over deletedUsers and s.google.GetUsers(query)
GetGoogleUsers ==
    /\ pc = "deletedUsers"
    /\ i > Len(snap.deletedUsers)
    /\ \E r \in Answers :
        LET c == <<Call("google.GetUsers", NoUser, "", r)>> IN
        IF FetchFatal(r)
        THEN Return(c, r)
        ELSE /\ snap' = [snap EXCEPT !.googleUsers =
                            IF r = "ok" THEN GetAllUsers ELSE <<>>]
             /\ Proceed(c, tgt, "syncUsers", 1, 1)
             /\ UNCHANGED ops
    /\ UNCHANGED <<gDir, cfg, tgt0, users, others>>

\* one iteration of the loop over googleUsers: the error of FindUserByEmail
\* is dropped, only the user it hands back is looked at
SyncUserStep ==
    /\ pc = "syncUsers"
    /\ i <= Len(snap.googleUsers)
    /\ LET u == snap.googleUsers[i] IN
       IF ignoreUser(u.PrimaryEmail)
       THEN Proceed(<<>>, tgt, pc, i + 1, 1) /\ UNCHANGED <<users, snap, ops>>
       ELSE \E r1 \in FindUserByEmailAnswers(tgt, u.PrimaryEmail) :
            LET c1 == <<Call("FindUserByEmail", FromGoogle(u), "", r1)>> IN
            IF r1 = "ok"
            THEN LET uu == tgt.users[u.PrimaryEmail] IN
                 /\ users' = (uu.Username :> uu) @@ users
                 /\ IF uu.Active = u.Suspended
                    THEN \E r2 \in Answers :
                         LET c2 == <<Call("UpdateUser", FromGoogle(u), "", r2)>> IN
                         IF ApplyFatal(r2) THEN Return(c1 \o c2, r2)
                         ELSE Proceed(c1 \o c2,
                                      IF r2 = "ok" THEN StoreUpdateUser(tgt, FromGoogle(u))
                                                   ELSE tgt,
                                      pc, i + 1, 1)
                              /\ UNCHANGED <<snap, ops>>
                    ELSE Proceed(c1, tgt, pc, i + 1, 1) /\ UNCHANGED <<snap, ops>>
            ELSE \E r2 \in CreateUserAnswers(tgt, FromGoogle(u)) :
                 LET c2 == <<Call("CreateUser", FromGoogle(u), "", r2)>> IN
                 IF SyncUsersCreateFatal(r2)
                 THEN Return(c1 \o c2, r2) /\ UNCHANGED users
                 ELSE /\ users' = (u.PrimaryEmail :> FromGoogle(u)) @@ users
                      /\ Proceed(c1 \o c2,
                                 IF r2 = "ok" THEN StoreCreateUser(tgt, FromGoogle(u)) ELSE tgt,
                                 pc, i + 1, 1)
                      /\ UNCHANGED <<snap, ops>>
    /\ UNCHANGED <<gDir, cfg, tgt0, others>>

\* SyncUsers returns nil and DoSync calls SyncGroups
SyncUsersCompleted ==
    /\ pc = "syncUsers"
    /\ i > Len(snap.googleUsers)
    /\ Proceed(<<>>, tgt, "SyncGroups", 1, 1)
    /\ UNCHANGED <<gDir, cfg, tgt0, users, snap, ops, others>>

----------------------------------------------------------------------------
(* SyncGroups *)

\* "if err != nil && err != aws.ErrGroupNotFound { return err }"
FindGroupFatal(r) == r # "ok" /\ r # "NotFound"

\* a member list that holds no member
memberListEmpty(groupMembers) == {}

\* memberList of SyncGroups: the addresses of the members that are keys of s.users
memberList(groupMembers) ==
    {groupMembers[k].Email : k \in 1..Len(groupMembers)} \cap DOMAIN users

\* s.google.GetGroups(query)
SyncGroupsGetGroups ==
    /\ pc = "SyncGroups"
    /\ \E r \in Answers :
        LET c == <<Call("google.GetGroups", NoUser, "", r)>> IN
        IF FetchFatal(r)
        THEN Return(c, r)
        ELSE /\ snap' = [snap EXCEPT !.googleGroups = IF r = "ok" THEN gDir.groups ELSE <<>>]
             /\ Proceed(c, tgt, "syncGroups", 1, 1)
             /\ UNCHANGED ops
    /\ UNCHANGED <<gDir, cfg, tgt0, users, others>>

\* one iteration of the loop over googleGroups, up to the loop over s.users:
\* the filter, the aws group found or created, the members read from Google,
\* and the order in which the map s.users happens to be ranged over
SyncGroupStep ==
    /\ pc = "syncGroups"
    /\ i <= Len(snap.googleGroups)
    /\ LET g == snap.googleGroups[i] IN
       IF ignoreGroup(g.Email) \/ ~includeGroup(g.Email)
       THEN Proceed(<<>>, tgt, pc, i + 1, 1) /\ UNCHANGED <<snap, ops>>
       ELSE \E r1 \in FindGroupByDisplayNameAnswers(tgt, g.Email),
               r2 \in Answers, r3 \in Answers, p \in Orders(DOMAIN users) :
            LET c1 == <<Call("FindGroupByDisplayName", NoUser, g.Email, r1)>>
                c2 == <<Call("CreateGroup", NoUser, g.Email, r2)>>
                c3 == <<Call("google.GetGroupMembers", NoUser, g.Name, r3)>>
                cs == IF r1 = "ok" THEN c1 ELSE c1 \o c2
                t  == IF r1 = "ok" \/ r2 # "ok" THEN tgt
                      ELSE StoreCreateGroup(tgt, NewGroup(g.Email))
                groupMembers == IF r3 = "ok" THEN GetGroupMembers(g) ELSE <<>>
            IN  IF FindGroupFatal(r1) THEN Return(c1, r1)
                ELSE IF r1 # "ok" /\ ApplyFatal(r2) THEN Return(cs, r2)
                ELSE IF FetchFatal(r3) THEN ReturnWith(cs \o c3, t, r3)
                ELSE /\ snap' = [snap EXCEPT
                            !.group = StoredGroup(g.Email),
                            !.memberList = memberList(groupMembers),
                            !.userOrder = p]
                     /\ Proceed(cs \o c3, t, "syncGroupMembers", i, 1)
                     /\ UNCHANGED ops
    /\ UNCHANGED <<gDir, cfg, tgt0, users, others>>

\* one iteration of the loop over s.users
SyncGroupMemberStep ==
    /\ pc = "syncGroupMembers"
    /\ j <= Len(snap.userOrder)
    /\ LET u == users[snap.userOrder[j]]
           group == snap.group
       IN
       \E r1 \in Answers, r2 \in Answers :
        LET b == r1 = "ok" /\ IsUserInGroup(tgt, u, group)
            c1 == <<Call("IsUserInGroup", u, group.DisplayName, r1)>>
            add == <<Call("AddUserToGroup", u, group.DisplayName, r2)>>
            remove == <<Call("RemoveUserFromGroup", u, group.DisplayName, r2)>>
        IN  IF ApplyFatal(r1) THEN Return(c1, r1)
            ELSE IF u.Username \in snap.memberList
            THEN IF b THEN Proceed(c1, tgt, pc, i, j + 1) /\ UNCHANGED <<snap, ops>>
                 ELSE IF ApplyFatal(r2) THEN Return(c1 \o add, r2)
                 ELSE Proceed(c1 \o add,
                              IF r2 = "ok" THEN StoreAddUserToGroup(tgt, u, group) ELSE tgt,
                              pc, i, j + 1)
                      /\ UNCHANGED <<snap, ops>>
            ELSE IF ~b THEN Proceed(c1, tgt, pc, i, j + 1) /\ UNCHANGED <<snap, ops>>
                 ELSE IF ApplyFatal(r2) THEN Return(c1 \o remove, r2)
                 ELSE Proceed(c1 \o remove,
                              IF r2 = "ok" THEN StoreRemoveUserFromGroup(tgt, u, group)
                                           ELSE tgt,
                              pc, i, j + 1)
                      /\ UNCHANGED <<snap, ops>>
    /\ UNCHANGED <<gDir, cfg, tgt0, users, others>>

\* the end of the loop over s.users
SyncGroupMembersDone ==
    /\ pc = "syncGroupMembers"
    /\ j > Len(snap.userOrder)
    /\ Proceed(<<>>, tgt, "syncGroups", i + 1, 1)
    /\ UNCHANGED <<gDir, cfg, tgt0, users, snap, ops, others>>

\* SyncGroups returns nil, and so does DoSync
SyncGroupsCompleted ==
    /\ pc = "syncGroups"
    /\ i > Len(snap.googleGroups)
    /\ Proceed(<<>>, tgt, "done", i, j)
    /\ UNCHANGED <<gDir, cfg, tgt0, users, snap, ops, others>>

----------------------------------------------------------------------------
(* DoSync *)

\* the dispatch with the two sync methods exchanged
DoSyncEntryExchanged(method) ==
    IF method = DefaultSyncMethod THEN "GetDeletedUsers" ELSE "GetGoogleGroups"

\* "if cfg.SyncMethod == config.DefaultSyncMethod": the function DoSync
\* calls first, named by the position at which it starts
DoSyncEntry(method) ==
    IF method = DefaultSyncMethod THEN "GetGoogleGroups" ELSE "GetDeletedUsers"

\* DoSync up to its first call of a sync function
DoSync ==
    /\ pc = "DoSync"
    /\ Proceed(<<>>, tgt, DoSyncEntry(cfg.SyncMethod), 1, 1)
    /\ UNCHANGED <<gDir, cfg, tgt0, users, snap, ops, others>>

\* the Google directories of the runs of DoSync: the members of g1 are
\* addresses of users, and some users are reported as deleted
DoSyncDirs ==
    {[groups  |-> [k \in 1..Len(ListOf(G, GroupOrder)) |-> GGroup(ListOf(G, GroupOrder)[k])],
      members |-> [n \in GroupNames |-> IF n = "g1" THEN m1 ELSE <<GMember("b")>>],
      users   |-> [e \in Emails |-> IF e = "a" THEN GUser("Ann", "Lee", "a", TRUE)
                                              ELSE GUser("Bob", "Ray", "b", FALSE)],
      deleted |-> [k \in 1..Len(ListOf(D, EmailOrder)) |->
                      IF ListOf(D, EmailOrder)[k] = "a"
                      THEN GUser("Ann", "Lee", "a", TRUE)
                      ELSE GUser("Bob", "Ray", "b", FALSE)]] :
        G \in {{"g1"}, {"g1", "g2"}}, m1 \in MemberLists({"a", "a2", "b"}),
        D \in {{}, {"b"}, {"a", "b"}}}

DoSyncConfigs ==
    {[IgnoreUsers |-> c.u, IgnoreGroups |-> c.g, IncludeGroups |-> c.n, SyncMethod |-> m] :
        c \in {[u |-> {}, g |-> {}, n |-> {}],
               [u |-> {"b"}, g |-> {"g2@"}, n |-> {}],
               [u |-> {}, g |-> {}, n |-> {"g1@"}]},
        m \in {DefaultSyncMethod, UsersGroupsSyncMethod}}

\* the AWS stores of the runs of DoSync: SyncGroups names the aws group of
\* the Google group g1 by its email, SyncGroupsUsers by its name
DoSyncStores ==
    UNION {UNION {{[users |-> u, groups |-> G, members |-> M] :
                        M \in SUBSET (E \X G)} :
                    u \in {f \in [E -> UNION {StoredUsers(e) : e \in E}] :
                                \A e \in E : /\ f[e] \in StoredUsers(e)
                                             /\ f[e].GivenName = "Ann" \/ e = "b"
                                             /\ f[e].FamilyName = "Lee" \/ e = "b"},
                    G \in SUBSET {"g1", "g1@"}} :
            E \in SUBSET Emails}

InitDoSync == Start(DoSyncDirs, DoSyncConfigs, DoSyncStores, "DoSync")

NextDoSync ==
    \/ DoSync
    \/ Next
    \/ GetDeletedUsersStep
    \/ DeletedUserStep
    \/ GetGoogleUsers
    \/ SyncUserStep
    \/ SyncUsersCompleted
    \/ SyncGroupsGetGroups
    \/ SyncGroupStep
    \/ SyncGroupMemberStep
    \/ SyncGroupMembersDone
    \/ SyncGroupsCompleted

\* a run of DoSync during which no other actor changes the store
SpecDoSync == InitDoSync /\ [][NextDoSync]_vars

----------------------------------------------------------------------------
(* Vocabulary of the properties *)

\* the run returned nil
Completed == pc = "done" /\ err = "none"

\* the positions at which the snapshots are built
SnapshotPcs == {"GetGoogleGroups", "GoogleMembers", "GetAWSGroups", "GetAWSUsers", "AWSMembers"}

\* the operation lists are computed
OpsComputed == pc \notin SnapshotPcs /\ errAt \notin SnapshotPcs

\* phase 2 has ended without error
UpdatePhaseDone ==
    \/ pc \in {"addUsers", "addGroups", "addGroupMembers", "equalAdd", "equalRemove", "delGroups"}
    \/ pc = "done" /\ errAt \notin SnapshotPcs \cup {"delUsers", "updUsers"}

OnAWS(c) == c.op \notin {"google.GetGroups", "google.GetGroupMembers"}

Mutating(c) ==
    c.op \in {"CreateUser", "UpdateUser", "DeleteUser", "CreateGroup", "DeleteGroup",
              "AddUserToGroup", "RemoveUserFromGroup"}

\* the answer of the call c is an error the run does not swallow
Failed(c) == c.res # "ok" /\ ~(c.op = "CreateUser" /\ c.res = "Conflict")

\* the users of the store t that are members of its group n
MembersOf(t, n) == {e \in DOMAIN t.users : <<e, n>> \in t.members}

\* the primary emails of the users of the list us
PrimaryEmails(us) == {us[k].PrimaryEmail : k \in 1..Len(us)}

Usernames(us) == {us[k].Username : k \in 1..Len(us)}

DisplayNames(gs) == {gs[k].DisplayName : k \in 1..Len(gs)}

\* the diff of the users of a fresh pair of snapshots
FreshUserOperations == getUserOperations(ListUsers(tgt), snap.googleUsers)

FreshGroupOperations == getGroupOperations(ListGroups(tgt), snap.googleGroups)

\* the diff of the users of the snapshots of the run
UserOperations == getUserOperations(snap.awsUsers, snap.googleUsers)

\* the phase a mutating call belongs to, told from the call alone
PhaseOf(c) ==
    CASE c.op = "DeleteUser" -> 1
      [] c.op = "UpdateUser" -> 2
      [] c.op = "CreateUser" -> 3
      [] c.op = "CreateGroup" -> 4
      [] c.op = "AddUserToGroup" ->
            IF c.group \in DisplayNames(ops.addAWSGroups) THEN 4 ELSE 5
      [] c.op = "RemoveUserFromGroup" -> 5
      [] c.op = "DeleteGroup" -> 6

\* the store the successful calls of cs leave when issued on the store t
Effect(t, c) ==
    IF c.res # "ok" THEN t
    ELSE CASE c.op = "CreateUser" -> StoreCreateUser(t, c.user)
           [] c.op = "UpdateUser" -> StoreUpdateUser(t, c.user)
           [] c.op = "DeleteUser" -> StoreDeleteUser(t, c.user)
           [] c.op = "CreateGroup" -> StoreCreateGroup(t, NewGroup(c.group))
           [] c.op = "DeleteGroup" -> StoreDeleteGroup(t, NewGroup(c.group))
           [] c.op = "AddUserToGroup" -> StoreAddUserToGroup(t, c.user, NewGroup(c.group))
           [] c.op = "RemoveUserFromGroup" ->
                StoreRemoveUserFromGroup(t, c.user, NewGroup(c.group))
           [] OTHER -> t

RECURSIVE Replay(_, _)
Replay(t, cs) == IF cs = <<>> THEN t ELSE Replay(Effect(t, Head(cs)), Tail(cs))

----------------------------------------------------------------------------
(* Properties of SyncGroupsUsers *)

\* C1: once phase 2 has ended without error, every user of the update list
\* has in the store the given name, the family name and the active flag
\* (not suspended) the directory gives it, so that a fresh diff finds it equal.
C1_UpdatedUsersCarrySource ==
    UpdatePhaseDone =>
        \A k \in 1..Len(ops.updateAWSUsers) :
            LET e == ops.updateAWSUsers[k].Username IN
            /\ UserExists(tgt, e)
            /\ tgt.users[e] = FromGoogle(gDir.users[e])

\* C2: when the run returns nil, the diff of fresh snapshots has empty add,
\* delete and update lists of users and empty add and delete lists of groups.
C2_Convergence ==
    Completed =>
        /\ FreshUserOperations.add = <<>>
        /\ FreshUserOperations.delete = <<>>
        /\ FreshUserOperations.update = <<>>
        /\ FreshGroupOperations.add = <<>>
        /\ FreshGroupOperations.delete = <<>>

\* C3: when the run returns nil, the users of the store that are members of
\* a group classified equal or add are exactly the primary emails of the
\* members the directory gives that group.
C3_MembershipConverges ==
    Completed =>
        \A n \in DisplayNames(ops.equalAWSGroups) \cup DisplayNames(ops.addAWSGroups) :
            MembersOf(tgt, n) = PrimaryEmails(Get(snap.googleGroupsUsers, n))

\* a run returned nil after adding a member to and removing a member from
\* an equal group
C3_Witness ==
    /\ Completed
    /\ \E k, l \in 1..Len(calls) :
        /\ calls[k].op = "AddUserToGroup" /\ calls[k].at = "equalAdd"
        /\ calls[l].op = "RemoveUserFromGroup"
        /\ calls[k].group = calls[l].group
        /\ UserExists(tgt, calls[l].user.Username)

\* C4: the mutating calls are issued in the order of the phases: user
\* deletes, user updates, user creates, group creates each followed by the
\* member adds of that group, member adds and removes of the equal groups,
\* group deletes; no call of an earlier phase follows a call of a later one.
C4_PhaseOrder ==
    /\ \A k, l \in 1..Len(calls) :
        (k < l /\ Mutating(calls[k]) /\ Mutating(calls[l]))
            => PhaseOf(calls[k]) <= PhaseOf(calls[l])
    /\ \A l \in 1..Len(calls) :
        (calls[l].op = "AddUserToGroup" /\ PhaseOf(calls[l]) = 4) =>
            \E k \in 1..(l - 1) :
                /\ calls[k].op = "CreateGroup"
                /\ calls[k].group = calls[l].group
                /\ \A m \in (k + 1)..(l - 1) : calls[m].op # "CreateGroup"

\* a run returned nil after mutating calls of four phases, among them an
\* update and a create of a user
C4_Witness ==
    /\ Completed
    /\ {2, 3} \subseteq {PhaseOf(calls[k]) : k \in {l \in 1..Len(calls) : Mutating(calls[l])}}
    /\ Cardinality({PhaseOf(calls[k]) : k \in {l \in 1..Len(calls) : Mutating(calls[l])}}) >= 4

\* C5: in phase 1 a NotFound answer to the lookup of a user to delete is
\* skipped: the run does not return an error because of it.
C5_NotFoundIsSkipped ==
    \A k \in 1..Len(calls) :
        (calls[k].at = "delUsers" /\ calls[k].op = "FindUserByEmail"
            /\ calls[k].res = "NotFound")
        => ~(pc = "done" /\ err = "NotFound" /\ errAt = "delUsers")

\* C6: a CreateUser of phase 3 answered with a 409 does not end the run: the
\* loop goes on and a run that then returns nil has created every group to
\* add and deleted every group to delete; any other error of CreateUser is
\* returned at once.
C6_ConflictIsSwallowed ==
    /\ \A k \in 1..Len(calls) :
        calls[k].op = "CreateUser" =>
            /\ calls[k].res = "Conflict" =>
                 ~(k = Len(calls) /\ pc = "done") /\ err # "Conflict"
            /\ calls[k].res \notin {"ok", "Conflict"} =>
                 k = Len(calls) /\ pc = "done" /\ err = calls[k].res
    /\ Completed =>
        /\ \A n \in DisplayNames(ops.addAWSGroups) :
             \E l \in 1..Len(calls) : calls[l].op = "CreateGroup" /\ calls[l].group = n
        /\ \A n \in DisplayNames(ops.delAWSGroups) :
             \E l \in 1..Len(calls) : calls[l].op = "DeleteGroup" /\ calls[l].group = n

\* a run returned nil after a 409 on a create that was followed by the
\* create of another user, of a group and by the delete of a group
C6_Witness ==
    /\ Completed
    /\ \E k, l, m, n \in 1..Len(calls) :
        /\ k < l /\ l < m /\ m < n
        /\ calls[k].op = "CreateUser" /\ calls[k].res = "Conflict"
        /\ calls[l].op = "CreateUser" /\ calls[l].res = "ok"
        /\ calls[m].op = "CreateGroup"
        /\ calls[n].op = "DeleteGroup"

\* C7: the first error the run does not swallow is the answer of the last
\* call it issues and is the error it returns, and the store is the initial
\* store changed by the calls that succeeded: nothing is undone.
C7_ErrorAbortsWithoutRollback ==
    /\ \A k \in 1..Len(calls) :
        Failed(calls[k]) => k = Len(calls) /\ pc = "done" /\ err = calls[k].res
    /\ err # "none" => pc = "done" /\ calls # <<>> /\ Failed(Last(calls))
    /\ tgt = Replay(tgt0, calls)

\* a run returned an error after a user was deleted and a user was created
C7_Witness ==
    /\ err # "none"
    /\ \E k, l \in 1..Len(calls) :
        /\ calls[k].op = "DeleteUser" /\ calls[k].res = "ok"
        /\ calls[l].op = "CreateUser" /\ calls[l].res = "ok"
        /\ ~UserExists(tgt, calls[k].user.Username)
        /\ UserExists(tgt, calls[l].user.Username)
    /\ tgt # tgt0

\* C8: when a call that builds the snapshots fails, the run returns that
\* error, has issued no mutating call, and the store is unchanged.
C8_FailedSnapshotChangesNothing ==
    \A k \in 1..Len(calls) :
        (calls[k].at \in SnapshotPcs /\ calls[k].res # "ok") =>
            /\ pc = "done"
            /\ err = calls[k].res
            /\ \A l \in 1..Len(calls) : ~Mutating(calls[l])
            /\ tgt = tgt0

\* a membership probe of the snapshot failed on a store that holds a user to
\* delete
C8_Witness ==
    /\ errAt = "AWSMembers"
    /\ Last(calls).op = "IsUserInGroup"
    /\ Last(calls).res = "TransportError"
    /\ \E e \in DOMAIN tgt.users : e \notin PrimaryEmails(snap.googleUsers)

\* C9: every user key of the two snapshots is in exactly one of the lists
\* add, delete, update, equals of getUserOperations, and is there once.
C9_UserOperationsComplete ==
    OpsComputed =>
        \A e \in PrimaryEmails(snap.googleUsers) \cup Usernames(snap.awsUsers) :
            Count(UserOperations.add, LAMBDA u : u.Username = e)
            + Count(UserOperations.delete, LAMBDA u : u.Username = e)
            + Count(UserOperations.update, LAMBDA u : u.Username = e)
            + Count(UserOperations.equals, LAMBDA u : u.Username = e) = 1

\* C10: a user of both snapshots is in update exactly when the active flag
\* of the store differs from not suspended or a name differs, and in equals
\* otherwise; a user of the directory only is in add, a user of the store
\* only in delete; the records of add and update are built from the
\* directory (active = not suspended); the lists of the run are these lists.
C10_UserClassification ==
    OpsComputed =>
        /\ \A e \in Emails :
            LET inG == e \in PrimaryEmails(snap.googleUsers)
                inA == e \in Usernames(snap.awsUsers)
                differs == \/ tgt0.users[e].Active # ~gDir.users[e].Suspended
                           \/ tgt0.users[e].GivenName # gDir.users[e].GivenName
                           \/ tgt0.users[e].FamilyName # gDir.users[e].FamilyName
            IN  /\ e \in Usernames(UserOperations.add) <=> inG /\ ~inA
                /\ e \in Usernames(UserOperations.delete) <=> inA /\ ~inG
                /\ e \in Usernames(UserOperations.update) <=> inG /\ inA /\ differs
                /\ e \in Usernames(UserOperations.equals) <=> inG /\ inA /\ ~differs
        /\ \A u \in Range(UserOperations.add) \cup Range(UserOperations.update) :
            u = [Username |-> u.Username,
                 GivenName |-> gDir.users[u.Username].GivenName,
                 FamilyName |-> gDir.users[u.Username].FamilyName,
                 Active |-> ~gDir.users[u.Username].Suspended]
        /\ ops.addAWSUsers = UserOperations.add
        /\ ops.delAWSUsers = UserOperations.delete
        /\ ops.updateAWSUsers = UserOperations.update

\* the lists are computed and hold a user to update because of its family
\* name alone and a user to add
C10_Witness ==
    /\ OpsComputed
    /\ \E k \in 1..Len(ops.updateAWSUsers) :
        LET e == ops.updateAWSUsers[k].Username IN
        /\ tgt0.users[e].Active = ~gDir.users[e].Suspended
        /\ tgt0.users[e].GivenName = gDir.users[e].GivenName
        /\ tgt0.users[e].FamilyName # gDir.users[e].FamilyName
    /\ ops.addAWSUsers # <<>>

\* the names of the Google groups of the list gs
GroupNamesOf(gs) == {gs[k].Name : k \in 1..Len(gs)}

\* C11: the group diff puts every display name of the two snapshots in
\* exactly one of its three lists: add holds the Google names the store
\* lacks, equals holds the names of both as the records of the store, delete
\* holds the names of the store Google lacks; there is no update list.
C11_GroupClassification ==
    OpsComputed =>
        LET S == GroupNamesOf(snap.googleGroups)
            T == DisplayNames(snap.awsGroups)
        IN  /\ DOMAIN getGroupOperations(snap.awsGroups, snap.googleGroups)
                    = {"add", "delete", "equals"}
            /\ DisplayNames(ops.addAWSGroups) = S \ T
            /\ DisplayNames(ops.equalAWSGroups) = S \cap T
            /\ DisplayNames(ops.delAWSGroups) = T \ S
            /\ Len(ops.addAWSGroups) + Len(ops.equalAWSGroups) + Len(ops.delAWSGroups)
                    = Cardinality(S \cup T)
            /\ \A k \in 1..Len(ops.equalAWSGroups) :
                    ops.equalAWSGroups[k] \in Range(snap.awsGroups)

\* a group of both snapshots next to a group of the store alone
C11_Witness ==
    /\ OpsComputed
    /\ ops.equalAWSGroups # <<>>
    /\ ops.delAWSGroups # <<>>

\* C12: for every group of the store, the membership diff lists for removal
\* the members whose username is no primary email of a Google member of the
\* group and as equal the members whose username is one; the two lists share
\* no user and together are the members of the group.
C12_GroupUsersClassification ==
    OpsComputed =>
        LET r == getGroupUsersOperations(snap.googleGroupsUsers, snap.awsGroupsUsers) IN
        \A n \in DOMAIN snap.awsGroupsUsers :
            LET members == snap.awsGroupsUsers[n]
                source == PrimaryEmails(Get(snap.googleGroupsUsers, n))
                del == Get(r.delete, n)
                eq == Get(r.equals, n)
            IN  /\ Range(del) = {u \in Range(members) : u.Username \notin source}
                /\ Range(eq) = {u \in Range(members) : u.Username \in source}
                /\ Range(del) \cap Range(eq) = {}
                /\ Range(del) \cup Range(eq) = Range(members)
                /\ Len(del) + Len(eq) = Len(members)

\* a group of the store with a member to remove and a member to keep
C12_Witness ==
    /\ OpsComputed
    /\ \E n \in DOMAIN snap.awsGroupsUsers :
        LET r == getGroupUsersOperations(snap.googleGroupsUsers, snap.awsGroupsUsers) IN
        /\ Get(r.delete, n) # <<>>
        /\ Get(r.equals, n) # <<>>
        /\ "g2" \in DOMAIN snap.googleGroupsUsers

\* the list of Google users is built
GoogleUsersCollected ==
    /\ pc \notin {"GetGoogleGroups", "GoogleMembers"}
    /\ errAt \notin {"GetGoogleGroups", "GoogleMembers"}

\* C14: no two users of the list getGoogleGroupsAndUsers returns have the
\* same primary email.
C14_UniqueGoogleUsers ==
    GoogleUsersCollected =>
        \A k, l \in 1..Len(snap.googleUsers) :
            snap.googleUsers[k].PrimaryEmail = snap.googleUsers[l].PrimaryEmail => k = l

\* C16: in phase 4 the user to resolve exists in the store, so FindUserByEmail
\* never answers ErrUserNotFound there; and when it answers an error, the run
\* returns that error without a further call.
C16_NewGroupMembersExist ==
    /\ (pc = "addGroupMembers"
         /\ j <= Len(Get(snap.googleGroupsUsers, ops.addAWSGroups[i].DisplayName)))
        => UserExists(tgt, Get(snap.googleGroupsUsers,
                                ops.addAWSGroups[i].DisplayName)[j].PrimaryEmail)
    /\ \A k \in 1..Len(calls) :
        (calls[k].at = "addGroupMembers" /\ calls[k].op = "FindUserByEmail") =>
            /\ calls[k].res # "NotFound"
            /\ calls[k].res # "ok" =>
                    /\ k = Len(calls)
                    /\ pc = "done"
                    /\ err = calls[k].res
                    /\ errAt = "addGroupMembers"

\* phase 4 resolved a user that phase 3 of the same run created
C16_Witness ==
    \E k \in 1..Len(calls) :
        /\ calls[k].at = "addGroupMembers"
        /\ calls[k].op = "FindUserByEmail"
        /\ calls[k].res = "ok"
        /\ \E l \in 1..k-1 :
            /\ calls[l].op = "CreateUser"
            /\ calls[l].res = "ok"
            /\ calls[l].user.Username = calls[k].user.Username

\* C20: no RemoveUserFromGroup of phase 5 names a user that a DeleteUser of
\* phase 1 of the same run has deleted.
C20_RemovedMemberStillExists ==
    \A k \in 1..Len(calls) :
        (calls[k].at = "equalRemove" /\ calls[k].op = "RemoveUserFromGroup") =>
            ~ \E l \in 1..k-1 :
                /\ calls[l].at = "delUsers"
                /\ calls[l].op = "DeleteUser"
                /\ calls[l].res = "ok"
                /\ calls[l].user.Username = calls[k].user.Username

----------------------------------------------------------------------------
(* Properties of DoSync, SyncUsers and SyncGroups *)

\* the positions of SyncUsers and of SyncGroups
SyncUsersPcs == {"GetDeletedUsers", "deletedUsers", "syncUsers"}

SyncGroupsPcs == {"SyncGroups", "syncGroups", "syncGroupMembers"}

\* the filter policy: the group is not ignored and, when groups are named for
\* inclusion, is one of them
TakesPart(g) ==
    /\ g.Email \notin cfg.IgnoreGroups
    /\ cfg.IncludeGroups # {} => g.Email \in cfg.IncludeGroups

\* the Google groups SyncGroupsUsers works on are those the policy lets in
SyncGroupsUsersFilter ==
    (/\ cfg.SyncMethod = DefaultSyncMethod
     /\ pc \notin {"DoSync", "GetGoogleGroups"}
     /\ errAt # "GetGoogleGroups")
        => Range(snap.googleGroups) = {g \in Range(gDir.groups) : TakesPart(g)}

\* the Google groups SyncGroups issues calls for are those the policy lets in
SyncGroupsFilter ==
    cfg.SyncMethod # DefaultSyncMethod =>
        /\ \A k \in 1..Len(calls) :
            calls[k].at \in {"syncGroups", "syncGroupMembers"} =>
                \E g \in Range(gDir.groups) :
                    TakesPart(g) /\ calls[k].group \in {g.Email, g.Name}
        /\ Completed =>
            \A g \in Range(gDir.groups) :
                TakesPart(g) => \E k \in 1..Len(calls) :
                                    /\ calls[k].op = "FindGroupByDisplayName"
                                    /\ calls[k].group = g.Email

\* C13: a Google group takes part in SyncGroupsUsers and in SyncGroups if and
\* only if it is not ignored and, when groups are named for inclusion, it is
\* one of them; with no group named for inclusion every group that is not
\* ignored takes part.
C13_GroupFilterPolicy == SyncGroupsUsersFilter /\ SyncGroupsFilter

\* the loop of SyncUsers over the deleted users has ended without error
DeletedUsersHandled ==
    /\ cfg.SyncMethod # DefaultSyncMethod
    /\ \/ pc = "deletedUsers" /\ i > Len(snap.deletedUsers)
       \/ pc \in {"syncUsers"} \cup SyncGroupsPcs

\* C15: in the loop of SyncUsers over the deleted users, a lookup answered
\* ErrUserNotFound is followed by no DeleteUser and does not end the run, and
\* a lookup that finds the user is followed by its DeleteUser; once the loop
\* has ended without error the store holds no deleted user, so that a second
\* pass finds none of them and deletes nothing.
C15_DeletedUsers ==
    /\ \A k \in 1..Len(calls) :
        (calls[k].at = "deletedUsers" /\ calls[k].op = "FindUserByEmail") =>
            /\ calls[k].res = "NotFound" =>
                    /\ ~(k = Len(calls) /\ pc = "done")
                    /\ k < Len(calls) => calls[k+1].op # "DeleteUser"
            /\ calls[k].res = "ok" =>
                    /\ k < Len(calls)
                    /\ calls[k+1].op = "DeleteUser"
                    /\ calls[k+1].user.Username = calls[k].user.Username
    /\ DeletedUsersHandled =>
        \A e \in DeletedEmails :
            /\ ~UserExists(tgt, e)
            /\ "ok" \notin FindUserByEmailAnswers(tgt, e)

\* the loop skipped a deleted user the store lacks, then deleted the next
C15_Witness ==
    /\ DeletedUsersHandled
    /\ \E k \in 1..Len(calls) :
        /\ calls[k].at = "deletedUsers"
        /\ calls[k].op = "FindUserByEmail"
        /\ calls[k].res = "NotFound"
        /\ \E l \in k+1..Len(calls) :
            /\ calls[l].at = "deletedUsers"
            /\ calls[l].op = "DeleteUser"
            /\ calls[l].res = "ok"

\* C17: in the loop of SyncUsers over the Google users, a FindUserByEmail
\* answered with a transport error is the last call of the run, and the run
\* returns that error.
C17_FindErrorIsFatal ==
    \A k \in 1..Len(calls) :
        (/\ calls[k].at = "syncUsers"
         /\ calls[k].op = "FindUserByEmail"
         /\ calls[k].res = "TransportError") =>
            /\ k = Len(calls)
            /\ pc = "done"
            /\ err = "TransportError"

\* C18: in the loop of SyncUsers over the Google users, a CreateUser answered
\* with the 409 of an existing user does not make the run return an error.
C18_ConflictIsSkipped ==
    \A k \in 1..Len(calls) :
        (/\ calls[k].at = "syncUsers"
         /\ calls[k].op = "CreateUser"
         /\ calls[k].res = "Conflict") =>
            ~(k = Len(calls) /\ pc = "done" /\ err = "Conflict")

\* the positions of SyncGroupsUsers
SyncGroupsUsersPcs ==
    SnapshotPcs \cup {"delUsers", "updUsers", "addUsers", "addGroups", "addGroupMembers",
                      "equalAdd", "equalRemove", "delGroups"}

\* the calls on groups and on memberships
OnGroups(c) ==
    c.op \in {"google.GetGroups", "google.GetGroupMembers", "GetGroups",
              "FindGroupByDisplayName", "CreateGroup", "DeleteGroup", "IsUserInGroup",
              "AddUserToGroup", "RemoveUserFromGroup"}

\* SyncGroups has been called
SyncGroupsStarted ==
    \/ pc \in SyncGroupsPcs
    \/ errAt \in SyncGroupsPcs
    \/ \E k \in 1..Len(calls) : calls[k].at \in SyncGroupsPcs

\* the usernames SyncUsers found or created
IndexBuilt ==
    {calls[k].user.Username : k \in {l \in 1..Len(calls) :
        /\ calls[l].at = "syncUsers"
        /\ calls[l].op \in {"FindUserByEmail", "CreateUser"}
        /\ calls[l].res = "ok"}}

\* C19: with the default sync method only SyncGroupsUsers runs; with the
\* other one SyncUsers runs first, SyncGroups starts only once SyncUsers has
\* returned nil and works on the users SyncUsers indexed, and when SyncUsers
\* returns an error SyncGroups does not start and no call on a group or a
\* membership is issued.
C19_ModeDispatch ==
    /\ cfg.SyncMethod = DefaultSyncMethod =>
        /\ pc \in SyncGroupsUsersPcs \cup {"DoSync", "done"}
        /\ errAt \in SyncGroupsUsersPcs \cup {""}
        /\ \A k \in 1..Len(calls) : calls[k].at \in SyncGroupsUsersPcs
        /\ users = <<>>
    /\ cfg.SyncMethod # DefaultSyncMethod =>
        /\ pc \in SyncUsersPcs \cup SyncGroupsPcs \cup {"DoSync", "done"}
        /\ errAt \in SyncUsersPcs \cup SyncGroupsPcs \cup {""}
        /\ \A k \in 1..Len(calls) : calls[k].at \in SyncUsersPcs \cup SyncGroupsPcs
        /\ \A k, l \in 1..Len(calls) :
            (k < l /\ calls[k].at \in SyncGroupsPcs) => calls[l].at \in SyncGroupsPcs
        /\ Completed => SyncGroupsStarted
        /\ SyncGroupsStarted =>
            /\ errAt \notin SyncUsersPcs
            /\ \E k \in 1..Len(calls) :
                calls[k].op = "google.GetUsers" /\ calls[k].res = "ok"
            /\ \A k \in 1..Len(calls) :
                calls[k].at \in SyncUsersPcs =>
                    calls[k].op \in {"FindUserByEmail", "CreateUser"} \/ calls[k].res = "ok"
            /\ DOMAIN users = IndexBuilt
            /\ \A k \in 1..Len(calls) :
                calls[k].at = "syncGroupMembers" => calls[k].user.Username \in IndexBuilt
        /\ errAt \in SyncUsersPcs =>
            /\ pc = "done"
            /\ ~SyncGroupsStarted
            /\ \A k \in 1..Len(calls) : ~OnGroups(calls[k])

\* SyncGroups added to a group a user that SyncUsers created
C19_Witness ==
    /\ cfg.SyncMethod # DefaultSyncMethod
    /\ Completed
    /\ \E k \in 1..Len(calls) :
        /\ calls[k].at = "syncUsers"
        /\ calls[k].op = "CreateUser"
        /\ calls[k].res = "ok"
        /\ \E l \in k+1..Len(calls) :
            /\ calls[l].at = "syncGroupMembers"
            /\ calls[l].op = "AddUserToGroup"
            /\ calls[l].res = "ok"
            /\ calls[l].user.Username = calls[k].user.Username

----------------------------------------------------------------------------
(* Further properties of SyncGroupsUsers *)

\* the calls that change a user or a membership
OnUserOrMembership(c) ==
    c.op \in {"CreateUser", "UpdateUser", "DeleteUser", "AddUserToGroup",
              "RemoveUserFromGroup"}

\* C21: SyncGroupsUsers issues no CreateUser, UpdateUser, DeleteUser,
\* AddUserToGroup or RemoveUserFromGroup for a user whose email is ignored,
\* whether the store holds the user or not.
C21_IgnoredUserUntouched ==
    \A k \in 1..Len(calls) :
        OnUserOrMembership(calls[k]) => ~ignoreUser(calls[k].user.Username)

\* C22: every DeleteUser names a user that is no user of googleUsers and
\* every DeleteGroup a group that is no group of the filtered googleGroups,
\* and the call just before each of them is the lookup of the same user or
\* group, answered with success.
C22_DeletesOnlyAbsentKeys ==
    \A k \in 1..Len(calls) :
        /\ calls[k].op = "DeleteUser" =>
            /\ calls[k].user.Username \notin PrimaryEmails(snap.googleUsers)
            /\ k > 1
            /\ calls[k-1].op = "FindUserByEmail"
            /\ calls[k-1].res = "ok"
            /\ calls[k-1].user.Username = calls[k].user.Username
        /\ calls[k].op = "DeleteGroup" =>
            /\ calls[k].group \notin GroupNamesOf(snap.googleGroups)
            /\ k > 1
            /\ calls[k-1].op = "FindGroupByDisplayName"
            /\ calls[k-1].res = "ok"
            /\ calls[k-1].group = calls[k].group

\* a run that deleted a user and a group while Google has users and groups
C22_Witness ==
    /\ snap.googleUsers # <<>>
    /\ snap.googleGroups # <<>>
    /\ \E k \in 1..Len(calls) : calls[k].op = "DeleteUser" /\ calls[k].res = "ok"
    /\ \E k \in 1..Len(calls) : calls[k].op = "DeleteGroup" /\ calls[k].res = "ok"

----------------------------------------------------------------------------
(* Further properties of SyncGroups *)

\* the Google group passes the filter of SyncGroups
Retained(g) == ~ignoreGroup(g.Email) /\ includeGroup(g.Email)

\* the member addresses Google gives for the group whose email is email
SourceAddresses(email) ==
    UNION {{gDir.members[g.Name][k].Email : k \in 1..Len(gDir.members[g.Name])} :
                g \in {h \in Range(gDir.groups) : h.Email = email}}

\* the store as it was when the call number k was issued
StoreBefore(k) == Replay(tgt0, SubSeq(calls, 1, k - 1))

\* C23: when SyncGroups has returned nil, a user of s.users is a member of
\* the aws group of a retained Google group exactly when its username is a
\* member address of that Google group; and SyncGroups calls AddUserToGroup
\* and RemoveUserFromGroup only for users of s.users, right after a probe of
\* the same user and group whose answer differs from what Google says.
C23_SyncGroupsMembership ==
    /\ (cfg.SyncMethod # DefaultSyncMethod /\ Completed) =>
        \A g \in {h \in Range(gDir.groups) : Retained(h)} :
            \A e \in DOMAIN users :
                <<e, g.Email>> \in tgt.members <=> e \in SourceAddresses(g.Email)
    /\ \A k \in 1..Len(calls) :
        (/\ calls[k].at = "syncGroupMembers"
         /\ calls[k].op \in {"AddUserToGroup", "RemoveUserFromGroup"}) =>
            /\ calls[k].user.Username \in DOMAIN users
            /\ k > 1
            /\ calls[k-1].op = "IsUserInGroup"
            /\ calls[k-1].res = "ok"
            /\ calls[k-1].user = calls[k].user
            /\ calls[k-1].group = calls[k].group
            /\ calls[k].op = "AddUserToGroup" <=>
                    calls[k].user.Username \in SourceAddresses(calls[k].group)
            /\ calls[k].op = "AddUserToGroup" <=>
                    <<calls[k].user.Username, calls[k].group>> \notin StoreBefore(k).members

\* SyncGroups returned nil after adding one user of s.users to a group and
\* removing another from it
C23_Witness ==
    /\ cfg.SyncMethod # DefaultSyncMethod
    /\ Completed
    /\ \E k, l \in 1..Len(calls) :
        /\ calls[k].at = "syncGroupMembers"
        /\ calls[l].at = "syncGroupMembers"
        /\ calls[k].op = "AddUserToGroup"
        /\ calls[l].op = "RemoveUserFromGroup"
        /\ calls[k].group = calls[l].group

====
